---------------------------- MODULE Spec2Model ----------------------------
(* DocRoute: the document classification pipeline of server/services         *)
(* (documentService.js, geminiService.js), the upload and text validation    *)
(* middlewares and the routes that chain them.                               *)
(*                                                                           *)
(* JavaScript strings that the code inspects character by character          *)
(* (toLowerCase, parseFloat, the reply of the model) are tuples of           *)
(* one-character strings.  Numbers are exact decimals m / 10^d.              *)
EXTENDS Integers, Sequences, FiniteSets

VARIABLES
    pc,          \* request -> where the invocation stands
    op,          \* request -> the entry point that was invoked
    arg,         \* request -> the argument the entry point was given
    file,        \* request -> req.file / the file parameter of processDocument
    text,        \* request -> the text handed to geminiService.classifyDocument
    reply,       \* request -> the reply of the external model, once received
    ret,         \* request -> what the invocation returned, threw or responded
    disk,        \* the files under config.tempUploadPath: path and what is stored
    unlinks,     \* request -> the paths whose deletion the request attempted
    extCalls,    \* request -> number of model.generateContent calls started
    extractions  \* request -> number of extractTextFromFile calls started

vars == <<pc, op, arg, file, text, reply, ret, disk, unlinks, extCalls, extractions>>

-----------------------------------------------------------------------------
(* Strings                                                                   *)

UpperChars == <<"A","B","C","D","E","F","G","H","I","J","K","L","M",
                "N","O","P","Q","R","S","T","U","V","W","X","Y","Z">>
LowerChars == <<"a","b","c","d","e","f","g","h","i","j","k","l","m",
                "n","o","p","q","r","s","t","u","v","w","x","y","z">>
Digits     == <<"0","1","2","3","4","5","6","7","8","9">>
WhiteSpace == {" ", "\n", "\t"}

\* String.prototype.toLowerCase on one ASCII character
LowerChar(c) ==
    IF \E i \in 1..26 : UpperChars[i] = c
    THEN LowerChars[CHOOSE i \in 1..26 : UpperChars[i] = c]
    ELSE c

\* String.prototype.toLowerCase
ToLowerCase(s) == [i \in 1..Len(s) |-> LowerChar(s[i])]

IsDigit(c) == \E i \in 1..10 : Digits[i] = c
DigitVal(c) == (CHOOSE i \in 1..10 : Digits[i] = c) - 1

RECURSIVE Pow10(_)
Pow10(k) == IF k <= 0 THEN 1 ELSE 10 * Pow10(k - 1)

\* the character of s at position i, "" past the end
At(s, i) == IF i >= 1 /\ i <= Len(s) THEN s[i] ELSE ""

\* whether the characters of p occur in s from position i on
StartsAt(s, i, p) == /\ i + Len(p) - 1 <= Len(s)
                     /\ \A k \in 1..Len(p) : s[i + k - 1] = p[k]

-----------------------------------------------------------------------------
(* Numbers: NaN, +-Infinity, or the finite decimal m / 10^d with no trailing *)
(* zero in the fraction.                                                     *)

NaN == [k |-> "nan", m |-> 0, d |-> 0]
Inf(neg) == [k |-> "inf", m |-> IF neg THEN -1 ELSE 1, d |-> 0]

RECURSIVE Norm(_, _)
Norm(m, d) == IF d > 0 /\ m % 10 = 0 THEN Norm(m \div 10, d - 1)
              ELSE [k |-> "fin", m |-> m, d |-> d]

Dec(m, d) == Norm(m, d)

IsNaN(x) == x.k = "nan"

\* x < y, x > y, x >= y as JavaScript compares numbers (false when either is NaN)
NumLt(x, y) ==
    CASE x.k = "nan" \/ y.k = "nan" -> FALSE
      [] x.k = "inf" -> x.m < 0 /\ ~(y.k = "inf" /\ y.m < 0)
      [] y.k = "inf" -> y.m > 0
      [] OTHER -> x.m * Pow10(y.d) < y.m * Pow10(x.d)
NumGt(x, y) == NumLt(y, x)
NumGe(x, y) == x.k # "nan" /\ y.k # "nan" /\ ~NumLt(x, y)

Zero == Dec(0, 0)
One  == Dec(1, 0)
InUnitInterval(x) == x.k = "fin" /\ NumGe(x, Zero) /\ NumGe(One, x)

Half == Dec(5, 1)

RECURSIVE SkipWs(_, _)
SkipWs(s, i) == IF At(s, i) \in WhiteSpace THEN SkipWs(s, i + 1) ELSE i

RECURSIVE DigitsEnd(_, _)
DigitsEnd(s, i) == IF IsDigit(At(s, i)) THEN DigitsEnd(s, i + 1) ELSE i

\* the value of the digits s[i..j-1]
RECURSIVE DigitsVal(_, _, _)
DigitsVal(s, i, j) == IF j <= i THEN 0
                      ELSE DigitsVal(s, i, j - 1) * 10 + DigitVal(s[j - 1])

s_Infinity == <<"I","n","f","i","n","i","t","y">>

\* The global parseFloat on a string: leading white space is skipped, then the
\* longest prefix that is a decimal literal is converted and what follows it is
\* ignored; NaN when no prefix is one.  (Exponents are kept small enough by the
\* inputs for the result to stay finite.)  The steps, last first:

\* the number with sign neg, digits mant of which nFrac are decimals, exponent ex
MakeNumber(neg, mant, nFrac, ex) ==
    Dec((IF neg THEN -1 ELSE 1) * mant * Pow10(ex),
        nFrac + (IF ex < 0 THEN -ex ELSE 0))

\* the exponent whose digits are s[e1..e2-1]; without digits there is none
ExponentValue(s, neg, e1, e2) ==
    IF e2 > e1 THEN (IF neg THEN -1 ELSE 1) * DigitsVal(s, e1, e2) ELSE 0

\* the exponent part at position e0, 0 when there is none
ExponentAt(s, e0) ==
    IF At(s, e0) \in {"e", "E"}
    THEN IF At(s, e0 + 1) \in {"+", "-"}
         THEN ExponentValue(s, At(s, e0 + 1) = "-", e0 + 2, DigitsEnd(s, e0 + 2))
         ELSE ExponentValue(s, FALSE, e0 + 1, DigitsEnd(s, e0 + 1))
    ELSE 0

\* integer digits s[i1..j1-1]; j2 = j1 without a decimal point, else the
\* decimals are s[j1+1..j2-1]
ParseDigits(s, neg, i1, j1, j2) ==
    IF j1 = i1 /\ j2 <= j1 + 1 THEN NaN
    ELSE MakeNumber(neg,
                    DigitsVal(s, i1, j1) * Pow10(IF j2 > j1 THEN j2 - j1 - 1 ELSE 0)
                        + DigitsVal(s, j1 + 1, j2),
                    IF j2 > j1 THEN j2 - j1 - 1 ELSE 0,
                    ExponentAt(s, j2))

ParseFraction(s, neg, i1, j1) ==
    ParseDigits(s, neg, i1, j1,
                IF At(s, j1) = "." THEN DigitsEnd(s, j1 + 1) ELSE j1)

ParseUnsigned(s, neg, i1) ==
    IF StartsAt(s, i1, s_Infinity) THEN Inf(neg)
    ELSE ParseFraction(s, neg, i1, DigitsEnd(s, i1))

ParseSigned(s, i0) ==
    IF At(s, i0) \in {"+", "-"} THEN ParseUnsigned(s, At(s, i0) = "-", i0 + 1)
    ELSE ParseUnsigned(s, FALSE, i0)

parseFloatStr(s) == ParseSigned(s, SkipWs(s, 1))

RECURSIVE NatToChars(_)
NatToChars(n) == IF n < 10 THEN <<Digits[n + 1]>>
                 ELSE NatToChars(n \div 10) \o <<Digits[(n % 10) + 1]>>

\* the k digits of n, zero-padded on the left
RECURSIVE PadDigits(_, _)
PadDigits(n, k) == IF k <= 0 THEN <<>>
                   ELSE PadDigits(n \div 10, k - 1) \o <<Digits[(n % 10) + 1]>>

\* Number::toString of a finite number (in the range where JavaScript prints
\* plain decimal notation)
NumToStr(x) ==
    LET a == IF x.m < 0 THEN -x.m ELSE x.m
        p == Pow10(x.d)
    IN  (IF x.m < 0 THEN <<"-">> ELSE <<>>)
        \o NatToChars(a \div p)
        \o (IF x.d > 0 THEN <<".">> \o PadDigits(a % p, x.d) ELSE <<>>)

-----------------------------------------------------------------------------
(* Values decoded from JSON, and undefined.  An object is the sequence of    *)
(* its members, in order.                                                    *)

Undef   == [t |-> "undef"]
Null    == [t |-> "null"]
Bool(b) == [t |-> "bool", b |-> b]
Num(x)  == [t |-> "num", n |-> x]
Str(s)  == [t |-> "str", s |-> s]
Arr(a)  == [t |-> "arr", a |-> a]
Obj(o)  == [t |-> "obj", o |-> o]
Member(k, v) == [k |-> k, v |-> v]

HasOwn(o, key) == \E i \in 1..Len(o) : o[i].k = key

\* property read on a decoded object: the last member with that key wins
Get(o, key) ==
    IF HasOwn(o, key)
    THEN o[CHOOSE i \in 1..Len(o) :
               o[i].k = key /\ \A j \in (i + 1)..Len(o) : o[j].k # key].v
    ELSE Undef

\* ToBoolean
Truthy(v) ==
    CASE v.t = "undef" -> FALSE
      [] v.t = "null"  -> FALSE
      [] v.t = "bool"  -> v.b
      [] v.t = "num"   -> v.n.m # 0
      [] v.t = "str"   -> Len(v.s) > 0
      [] OTHER         -> TRUE

s_undefined    == <<"u","n","d","e","f","i","n","e","d">>
s_null         == <<"n","u","l","l">>
s_true         == <<"t","r","u","e">>
s_false        == <<"f","a","l","s","e">>
s_objectObject == <<"[","o","b","j","e","c","t"," ","O","b","j","e","c","t","]">>

\* ToString, as parseFloat applies it to its argument.  An array joins its
\* elements with commas (null and undefined elements print as nothing); an
\* object prints as [object Object] through Object.prototype.toString, unless
\* a member named toString shadows it: a decoded member is never callable and
\* the conversion raises a TypeError.
RECURSIVE JsToString(_)
RECURSIVE JoinFrom(_, _)
JoinFrom(a, i) ==
    IF i > Len(a) THEN [ok |-> TRUE, s |-> <<>>]
    ELSE LET e    == a[i]
             head == IF e.t \in {"undef", "null"} THEN [ok |-> TRUE, s |-> <<>>]
                     ELSE JsToString(e)
             rest == JoinFrom(a, i + 1)
         IN  IF ~head.ok \/ ~rest.ok THEN [ok |-> FALSE, s |-> <<>>]
             ELSE [ok |-> TRUE,
                   s  |-> head.s \o (IF i < Len(a) THEN <<",">> ELSE <<>>) \o rest.s]
JsToString(v) ==
    CASE v.t = "undef" -> [ok |-> TRUE, s |-> s_undefined]
      [] v.t = "null"  -> [ok |-> TRUE, s |-> s_null]
      [] v.t = "bool"  -> [ok |-> TRUE, s |-> IF v.b THEN s_true ELSE s_false]
      [] v.t = "num"   -> [ok |-> TRUE, s |-> NumToStr(v.n)]
      [] v.t = "str"   -> [ok |-> TRUE, s |-> v.s]
      [] v.t = "arr"   -> JoinFrom(v.a, 1)
      [] OTHER         -> IF HasOwn(v.o, "toString")
                          THEN [ok |-> FALSE, s |-> <<>>]
                          ELSE [ok |-> TRUE, s |-> s_objectObject]

-----------------------------------------------------------------------------
(* config/config.js                                                          *)

\* config.documentTypes (OTHER is a reserved word: DOC_OTHER)
INVOICE == <<"i","n","v","o","i","c","e">>
PURCHASE_ORDER == <<"p","u","r","c","h","a","s","e","_","o","r","d","e","r">>
CONTRACT == <<"c","o","n","t","r","a","c","t">>
RECEIPT == <<"r","e","c","e","i","p","t">>
PROPOSAL == <<"p","r","o","p","o","s","a","l">>
AGREEMENT == <<"a","g","r","e","e","m","e","n","t">>
DOC_OTHER == <<"o","t","h","e","r">>
validDocumentTypes ==
    {INVOICE, PURCHASE_ORDER, CONTRACT, RECEIPT, PROPOSAL, AGREEMENT, DOC_OTHER}

\* config.departments
FINANCE == <<"f","i","n","a","n","c","e">>
PROCUREMENT == <<"p","r","o","c","u","r","e","m","e","n","t">>
LEGAL == <<"l","e","g","a","l">>
OPERATIONS == <<"o","p","e","r","a","t","i","o","n","s">>
GENERAL == <<"g","e","n","e","r","a","l">>
validDepartments == {FINANCE, PROCUREMENT, LEGAL, OPERATIONS, GENERAL}

\* config.confidenceLevels.HIGH and .MEDIUM: 0.8 and 0.6
HIGH   == Dec(8, 1)
MEDIUM == Dec(6, 1)

\* config.maxFileSize (10 MB, in bytes), config.allowedFileTypes,
\* config.supportedExtensions, with no environment overrides
maxFileSize == 10485760
allowedFileTypes == {"application/pdf", "text/plain"}
supportedExtensions == {".pdf", ".txt"}

-----------------------------------------------------------------------------
(* Outcomes of a call: a returned value or a thrown error.  ApiError carries *)
(* a status code and a message; any other error (TypeError, SyntaxError, an  *)
(* error of the model's client library) carries none.                        *)

ApiError(statusCode, message) ==
    [apiError |-> TRUE, statusCode |-> statusCode, message |-> message]
OtherError(name) == [apiError |-> FALSE, statusCode |-> 0, message |-> name]
NoError == [apiError |-> FALSE, statusCode |-> 0, message |-> ""]

Ok(v)    == [ok |-> TRUE,  val |-> v,  err |-> NoError]
Throw(e) == [ok |-> FALSE, val |-> Undef, err |-> e]

-----------------------------------------------------------------------------
(* services/geminiService.js: the sanitizer                                  *)

\* GeminiService.validateConfidence, lines 143-146
\* clampConfidence with the test `numConfidence > 1` left out (C1 fails of it)
clampConfidence_noUpperBound(numConfidence) ==
    IF IsNaN(numConfidence) \/ NumLt(numConfidence, Zero)
    THEN Num(Half)
    ELSE Num(numConfidence)

clampConfidence(numConfidence) ==
    IF IsNaN(numConfidence) \/ NumLt(numConfidence, Zero) \/ NumGt(numConfidence, One)
    THEN Num(Half)
    ELSE Num(numConfidence)

\* GeminiService.validateConfidence.  parseFloat converts its argument to a
\* string first (str); that conversion can raise.
parseFloatOf(str) ==
    IF str.ok THEN Ok(clampConfidence(parseFloatStr(str.s)))
    ELSE Throw(OtherError("TypeError"))

validateConfidence(confidence) == parseFloatOf(JsToString(confidence))

\* `x.toLowerCase()` where x is truthy: a TypeError unless x is a string
\* (numbers, booleans, arrays and objects have no such method)
LowerCallThrows(x) == Truthy(x) /\ x.t # "str"

\* lines 115-119 and 122-126: the enum coercion of one field
CoerceEnum(x, valid, dflt) ==
    IF ~Truthy(x) \/ ToLowerCase(x.s) \notin valid THEN Str(dflt)
    ELSE Str(ToLowerCase(x.s))

FallbackNote == <<"A","I"," ","c","o","u","l","d"," ","n","o","t"," ","c","l","a","s","s","i","f","y"," ","t","h","i","s"," ","d","o","c","u","m","e","n","t"," ","p","r","o","p","e","r","l","y">>
FallbackReasoning == <<"C","l","a","s","s","i","f","i","c","a","t","i","o","n"," ","f","a","i","l","e","d"," ","d","u","e"," ","t","o"," ","n","o","n","-","J","S","O","N"," ","r","e","s","p","o","n","s","e"," ","f","r","o","m"," ","A","I"," ","m","o","d","e","l">>
FallbackAction1 == <<"M","a","n","u","a","l"," ","r","e","v","i","e","w"," ","r","e","q","u","i","r","e","d">>
FallbackAction2 == <<"C","h","e","c","k"," ","d","o","c","u","m","e","n","t"," ","f","o","r","m","a","t"," ","a","n","d"," ","c","o","n","t","e","n","t">>
DefaultReasoning == <<"C","l","a","s","s","i","f","i","c","a","t","i","o","n"," ","c","o","m","p","l","e","t","e","d">>

\* GeminiService.validateClassificationResult once the two confidences are
\* validated: what it returns or throws
sanitized(o, confidence, routingConfidence) ==
    IF LowerCallThrows(Get(o, "documentType")) \/ LowerCallThrows(Get(o, "department"))
       \/ ~confidence.ok \/ ~routingConfidence.ok
    THEN Throw(OtherError("TypeError"))
    ELSE Ok([documentType |-> CoerceEnum(Get(o, "documentType"), validDocumentTypes,
                                         DOC_OTHER),
             department   |-> CoerceEnum(Get(o, "department"), validDepartments,
                                         GENERAL),
             confidence   |-> confidence.val,
             routingConfidence |-> routingConfidence.val,
             extractedData |-> IF Truthy(Get(o, "extractedData"))
                               THEN Get(o, "extractedData") ELSE Obj(<<>>),
             reasoning     |-> IF Truthy(Get(o, "reasoning"))
                               THEN Get(o, "reasoning") ELSE Str(DefaultReasoning),
             suggestedActions |-> IF Get(o, "suggestedActions").t = "arr"
                                  THEN Get(o, "suggestedActions") ELSE Arr(<<>>)])

\* GeminiService.validateClassificationResult, on a decoded object.  The
\* object is updated in place and returned; only the seven fields the rest of
\* the pipeline reads are kept here.
validateClassificationResult(result) ==
    sanitized(result.o,
              validateConfidence(Get(result.o, "confidence")),
              validateConfidence(Get(result.o, "routingConfidence")))

-----------------------------------------------------------------------------
(* services/geminiService.js: decoding the reply                             *)
(*                                                                           *)
(* A reply is a sequence of tokens: an opening or a closing brace, a member  *)
(* `"k": v` whose value v holds no brace, a key `"k":` that a nested object  *)
(* must follow, or a run of other text (prose, or anything that is not JSON  *)
(* syntax).  White space and commas between members are not modelled.        *)

LB       == [c |-> "{",      k |-> "", v |-> Undef]
RB       == [c |-> "}",      k |-> "", v |-> Undef]
Prose    == [c |-> "text",   k |-> "", v |-> Undef]
M(k, v)  == [c |-> "member", k |-> k,  v |-> v]
Key(k)   == [c |-> "key",    k |-> k,  v |-> Undef]

\* text.match(/\{[\s\S]*\}/): greedy, from the first opening brace to the
\* last closing brace of the text; <<>> when there is no match
jsonMatch(t) ==
    LET opens  == {i \in 1..Len(t) : t[i].c = "{"}
        closes == {i \in 1..Len(t) : t[i].c = "}"}
        first  == CHOOSE i \in opens : \A j \in opens : i <= j
        last   == CHOOSE i \in closes : \A j \in closes : j <= i
    IN  IF opens = {} \/ closes = {} THEN <<>>
        ELSE IF last < first THEN <<>>
        ELSE SubSeq(t, first, last)

\* the members of an object from position p on, up to its closing brace
RECURSIVE ParseMembers(_, _, _)
ParseMembers(s, p, acc) ==
    LET fail == [ok |-> FALSE, val |-> Obj(<<>>), next |-> p]
    IN  IF p > Len(s) THEN fail
        ELSE CASE s[p].c = "}" -> [ok |-> TRUE, val |-> Obj(acc), next |-> p + 1]
               [] s[p].c = "member" ->
                    ParseMembers(s, p + 1, Append(acc, Member(s[p].k, s[p].v)))
               [] s[p].c = "key" ->
                    IF p + 1 <= Len(s) /\ s[p + 1].c = "{"
                    THEN LET inner == ParseMembers(s, p + 2, <<>>)
                         IN  IF inner.ok
                             THEN ParseMembers(s, inner.next,
                                      Append(acc, Member(s[p].k, inner.val)))
                             ELSE fail
                    ELSE fail
               [] OTHER -> fail

\* JSON.parse of a text that starts with an opening brace: the decoded object,
\* or a SyntaxError unless the whole text is one object (r: its members parsed)
wholeObject(s, r) ==
    IF Len(s) >= 1 /\ s[1].c = "{" /\ r.ok /\ r.next = Len(s) + 1
    THEN Ok(r.val)
    ELSE Throw(OtherError("SyntaxError"))

JSONparse(s) == wholeObject(s, ParseMembers(s, 2, <<>>))

\* lines 82-92: the fallback classification
Fallback ==
    Obj(<<Member("documentType", Str(DOC_OTHER)),
          Member("confidence", Num(Dec(3, 1))),
          Member("department", Str(GENERAL)),
          Member("routingConfidence", Num(Dec(3, 1))),
          Member("extractedData", Obj(<<Member("note", Str(FallbackNote))>>)),
          Member("reasoning", Str(FallbackReasoning)),
          Member("suggestedActions",
                 Arr(<<Str(FallbackAction1), Str(FallbackAction2)>>))>>)

\* orFallback with an empty object in place of the fallback (C3 fails of it)
orFallback_emptyObject(decoded) == IF decoded.ok THEN decoded.val ELSE Obj(<<>>)

\* lines 78-95: the catch clause replaces a failed decoding by the fallback
orFallback(decoded) == IF decoded.ok THEN decoded.val ELSE Fallback

\* lines 73-77: no match throws, a match is decoded
decodeMatch(m) == IF m = <<>> THEN Fallback ELSE orFallback(JSONparse(m))

\* lines 70-95: the candidate decoded from the reply, or the fallback
parseReply(t) == decodeMatch(jsonMatch(t))

\* classifyDocumentCatch answering any error that is no ApiError with the
\* sanitized fallback instead of throwing (C4 fails of it)
classifyDocumentCatch_substitutes(out) ==
    IF out.ok \/ out.err.apiError THEN out
    ELSE validateClassificationResult(Fallback)

\* lines 100-106: an error that is no ApiError becomes an ApiError 500
classifyDocumentCatch(out) ==
    IF out.ok \/ out.err.apiError THEN out
    ELSE Throw(ApiError(500, "Failed to classify document with AI model"))

\* lines 69-106 of classifyDocument: what it returns or throws once the
\* external call has answered with the text t
classifyReply(t) == classifyDocumentCatch(validateClassificationResult(parseReply(t)))

-----------------------------------------------------------------------------
(* services/documentService.js: the routing advisor                          *)

\* DocumentService.getConfidenceLevel
getConfidenceLevel(confidence) ==
    IF NumGe(confidence, HIGH) THEN "high"
    ELSE IF NumGe(confidence, MEDIUM) THEN "medium"
    ELSE "low"

k_constructor == <<"c","o","n","s","t","r","u","c","t","o","r">>
k_toString == <<"t","o","S","t","r","i","n","g">>
k_proto == <<"_","_","p","r","o","t","o","_","_">>

\* departmentNames[department]: the table of line 311, and behind it the
\* members every object literal inherits from Object.prototype; "" is
\* undefined.  An inherited member is a function or an object and prints as
\* such in the template string.
departmentNames(department) ==
    CASE department = FINANCE     -> "Finance Department"
      [] department = PROCUREMENT -> "Procurement Department"
      [] department = LEGAL       -> "Legal Department"
      [] department = OPERATIONS  -> "Operations Department"
      [] department = GENERAL     -> "General Administration"
      [] department = k_constructor -> "function Object() { [native code] }"
      [] department = k_toString    -> "function toString() { [native code] }"
      [] department = k_proto       -> "[object Object]"
      [] OTHER -> ""

\* DocumentService.getRoutingRecommendation; the string is the sequence of
\* the pieces the template joins
getRoutingRecommendation(department, confidence) ==
    LET found    == departmentNames(department)
        deptName == IF found # "" THEN found ELSE "General Administration"
    IN  IF NumGe(confidence, HIGH)
        THEN <<"Recommended for automatic routing to ", deptName>>
        ELSE IF NumGe(confidence, MEDIUM)
        THEN <<"Suggested routing to ", deptName, " - Manual review recommended">>
        ELSE <<"Low confidence routing to ", deptName, " - Manual review required">>

\* DocumentService.buildClassificationResult (the time stamps of the metadata
\* are left out)
buildClassificationResult(classification, metadata) ==
    [metadata         |-> metadata,
     documentType     |-> classification.documentType,
     confidence       |-> classification.confidence,
     department       |-> classification.department,
     routingConfidence |-> classification.routingConfidence,
     extractedData    |-> classification.extractedData,
     reasoning        |-> classification.reasoning,
     suggestedActions |-> classification.suggestedActions,
     confidenceLevel  |-> getConfidenceLevel(classification.confidence.n),
     routingRecommendation |->
         getRoutingRecommendation(classification.department.s,
                                  classification.routingConfidence.n)]

-----------------------------------------------------------------------------
(* Document texts.  A text is the first n characters of its source document  *)
(* followed by the characters sfx; ws says that the source holds white space *)
(* only.  This keeps 50,000-character texts small without changing what      *)
(* length, substring, concatenation and trim compute.                        *)

SourceText(n, ws) == [n |-> n, ws |-> ws, sfx |-> <<>>]
Length(x) == x.n + Len(x.sfx)

\* x.trim().length === 0
TrimIsEmpty(x) == /\ x.n = 0 \/ x.ws
                  /\ \A i \in 1..Len(x.sfx) : x.sfx[i] \in WhiteSpace

\* x.substring(0, k)
Substring0(x, k) ==
    IF k <= x.n THEN [x EXCEPT !.n = k, !.sfx = <<>>]
    ELSE [x EXCEPT !.sfx = SubSeq(x.sfx, 1, k - x.n)]

\* x + chars
Concat(x, chars) == [x EXCEPT !.sfx = @ \o chars]

\* '\n...(truncated)'
TruncationMarker ==
    <<"\n",".",".",".","(","t","r","u","n","c","a","t","e","d",")">>

\* the local constant maxTextLength of processDocument, and that of classifyText
maxTextLength == 50000
maxTextLengthText == 50000

\* truncateExtracted passing every text on as it is (C16 fails of it)
truncateExtracted_noTruncation(extractedText) == extractedText

\* truncateExtracted keeping the marker within the cap (C6 fails of it)
truncateExtracted_withinCap(extractedText) ==
    IF Length(extractedText) > maxTextLength
    THEN Concat(Substring0(extractedText, maxTextLength - Len(TruncationMarker)),
                TruncationMarker)
    ELSE extractedText

\* processDocument, lines 204-207
truncateExtracted(extractedText) ==
    IF Length(extractedText) > maxTextLength
    THEN Concat(Substring0(extractedText, maxTextLength), TruncationMarker)
    ELSE extractedText

\* classifyText, lines 252-255
truncateContent(textContent) ==
    IF Length(textContent) > maxTextLengthText
    THEN Concat(Substring0(textContent, maxTextLengthText), TruncationMarker)
    ELSE textContent

NoText == SourceText(0, FALSE)

\* A value handed over as text content: a string, or any other value
TextVal(x) == [t |-> "text", x |-> x]
ContentTruthy(v) == IF v.t = "text" THEN Length(v.x) > 0 ELSE Truthy(v)

-----------------------------------------------------------------------------
(* Files.  req.file as multer's disk storage fills it in, with what the      *)
(* stored bytes are: whether they parse as a PDF, and the text they hold.    *)

NoPath == [name |-> "", suffix |-> ""]
NoBody == [pdfOk |-> FALSE, text |-> NoText]
NoFile == [present |-> FALSE, base |-> "", ext |-> "", mimetype |-> "",
           size |-> 0, path |-> NoPath, body |-> NoBody]
File(base, ext, mimetype, size, path, body) ==
    [present |-> TRUE, base |-> base, ext |-> ext, mimetype |-> mimetype,
     size |-> size, path |-> path, body |-> body]

\* path.extname(file.originalname).toLowerCase(), for the extensions in use
ExtLower(ext) ==
    CASE ext = ".TXT" -> ".txt"
      [] ext = ".PDF" -> ".pdf"
      [] OTHER -> ext

\* DocumentService.supportedMimeTypes
supportedMimeTypes(mimeType) ==
    CASE mimeType = "application/pdf" -> "pdf"
      [] mimeType = "text/plain"      -> "txt"
      [] OTHER -> ""

-----------------------------------------------------------------------------
(* services/documentService.js: text extraction                              *)

\* DocumentService.extractTextFromPDF: readOk is whether fs.readFile succeeds
extractTextFromPDF(f, readOk) ==
    IF ~readOk \/ ~f.body.pdfOk
    THEN Throw(ApiError(500, "Failed to extract text from PDF file"))
    ELSE IF TrimIsEmpty(f.body.text)
    THEN Throw(ApiError(400, "PDF file appears to be empty or contains no extractable text"))
    ELSE Ok(f.body.text)

\* DocumentService.extractTextFromTXT
extractTextFromTXT(f, readOk) ==
    IF ~readOk THEN Throw(ApiError(500, "Failed to read text file"))
    ELSE IF TrimIsEmpty(f.body.text) THEN Throw(ApiError(400, "Text file is empty"))
    ELSE Ok(f.body.text)

\* lines 162-167: the check of what the format's extractor returned
checkExtracted(extracted) ==
    IF extracted.ok /\ TrimIsEmpty(extracted.val)
    THEN Throw(ApiError(400, "No text content could be extracted from the file"))
    ELSE extracted

\* DocumentService.extractTextFromFile: onDisk is whether fs.access finds the path
extractTextFromFile(f, onDisk, readOk) ==
    LET fileType  == supportedMimeTypes(f.mimetype)
    IN  IF f.path = NoPath THEN Throw(ApiError(400, "File path is required"))
        ELSE IF ~onDisk THEN Throw(ApiError(404, "File not found"))
        ELSE IF fileType = "" THEN Throw(ApiError(400, "Unsupported file type"))
        ELSE checkExtracted(IF fileType = "pdf" THEN extractTextFromPDF(f, readOk)
                            ELSE extractTextFromTXT(f, readOk))

\* geminiService.classifyDocument, lines 59-61: the check before the external call
classifyDocumentCheck(documentContent) ==
    IF Length(documentContent) = 0
    THEN Throw(ApiError(400, "Document content is required and must be a string"))
    ELSE Ok(TextVal(documentContent))

\* the catch clauses of processDocument and classifyText: an ApiError is
\* rethrown, anything else becomes a 500
processDocumentCatch(error) ==
    IF error.apiError THEN error ELSE ApiError(500, "Failed to process document")
classifyTextCatch(error) ==
    IF error.apiError THEN error ELSE ApiError(500, "Failed to classify text content")

-----------------------------------------------------------------------------
(* Outcomes of an invocation: for a service call what it returned or the     *)
(* ApiError it threw, for an HTTP request the response.  The error           *)
(* middleware of index.js answers with err.statusCode || 500.                *)

NoOutcome   == [kind |-> "none",  status |-> 0,   val |-> Undef, message |-> ""]
Returned(v) == [kind |-> "ok",    status |-> 200, val |-> v,     message |-> ""]
Failed(err) == [kind |-> "error",
                status |-> IF err.apiError THEN err.statusCode ELSE 500,
                val |-> Undef, message |-> err.message]

-----------------------------------------------------------------------------
(* Inputs                                                                    *)

\* short texts have up to SmallLen characters; long ones up to MaxOver
\* characters more than the truncation cap
SmallLen == 2
MaxOver  == 2

TextLengths == (0..SmallLen) \cup ((maxTextLength - 1)..(maxTextLength + MaxOver))

Texts == {SourceText(n, FALSE) : n \in TextLengths}
            \cup {SourceText(SmallLen, TRUE), SourceText(maxTextLength + 1, TRUE)}

\* the file names multer's storage.filename can produce differ in their suffix
\* Date.now() + '-' + random
Suffixes == {"1730000000000-1", "1730000000001-2"}

\* a multipart upload: the file part, if any, as the client sends it
Upload(base, ext, mimetype, size, body) ==
    [hasFile |-> TRUE, base |-> base, ext |-> ext, mimetype |-> mimetype,
     size |-> size, body |-> body]
NoUpload == [hasFile |-> FALSE, base |-> "", ext |-> "", mimetype |-> "",
             size |-> 0, body |-> NoBody]

Uploads ==
    {NoUpload}
    \cup {Upload("notes", ".txt", "text/plain", Length(x), [pdfOk |-> FALSE, text |-> x])
            : x \in Texts}
    \cup {Upload("NOTES", ".TXT", "text/plain", SmallLen,
                 [pdfOk |-> FALSE, text |-> SourceText(SmallLen, FALSE)]),
          Upload("notes", ".doc", "text/plain", SmallLen,
                 [pdfOk |-> FALSE, text |-> SourceText(SmallLen, FALSE)]),
          Upload("image", ".png", "image/png", 2048, NoBody),
          Upload("max", ".txt", "text/plain", maxFileSize,
                 [pdfOk |-> FALSE, text |-> SourceText(maxFileSize, FALSE)]),
          Upload("huge", ".txt", "text/plain", maxFileSize + 1,
                 [pdfOk |-> FALSE, text |-> SourceText(maxFileSize + 1, FALSE)]),
          Upload("doc", ".pdf", "application/pdf", 4096,
                 [pdfOk |-> TRUE, text |-> SourceText(SmallLen, FALSE)]),
          Upload("long", ".pdf", "application/pdf", 4096,
                 [pdfOk |-> TRUE, text |-> SourceText(maxTextLength + MaxOver, FALSE)]),
          Upload("scan", ".pdf", "application/pdf", 4096,
                 [pdfOk |-> TRUE, text |-> SourceText(SmallLen, TRUE)]),
          Upload("broken", ".pdf", "application/pdf", 4096, NoBody)}

\* files handed to processDocument by a caller other than the upload route
DirectPath == [name |-> "direct", suffix |-> "0"]
DirectFiles ==
    {NoFile,
     File("notes", ".txt", "text/plain", SmallLen, DirectPath,
          [pdfOk |-> FALSE, text |-> SourceText(SmallLen, FALSE)]),
     File("huge", ".txt", "text/plain", maxFileSize + 1, DirectPath,
          [pdfOk |-> FALSE, text |-> SourceText(maxFileSize + 1, FALSE)]),
     File("huge", ".pdf", "application/pdf", maxFileSize + MaxOver, DirectPath,
          [pdfOk |-> TRUE, text |-> SourceText(SmallLen, FALSE)]),
     File("image", ".png", "image/png", 2048, DirectPath, NoBody),
     File("page", ".html", "text/html", SmallLen, DirectPath,
          [pdfOk |-> FALSE, text |-> SourceText(SmallLen, FALSE)])}

\* values handed to classifyText, or sent as the content of a JSON body
Contents ==
    {TextVal(x) : x \in Texts}
    \cup {Undef, Null, Num(Dec(42, 0)), Num(Zero), Bool(TRUE), Bool(FALSE),
          Arr(<<>>), Arr(<<Str(<<" ">>)>>), Obj(<<>>)}

-----------------------------------------------------------------------------
(* What the external model may put in the fields of its answer               *)

DocumentTypeValues ==
    {Undef, Null, Str(<<>>), Num(Zero), Num(Dec(42, 0)), Bool(TRUE), Bool(FALSE),
     Arr(<<>>), Arr(<<Str(INVOICE)>>), Obj(<<>>)}
    \cup {Str(s) : s \in {<<"i","n","v","o","i","c","e">>, <<"I","n","v","o","i","c","e">>, <<"P","U","R","C","H","A","S","E","_","O","R","D","E","R">>, <<"C","o","n","t","r","a","c","t">>, <<"r","e","c","e","i","p","t">>, <<"m","e","m","o">>, <<"o","t","h","e","r">>}}

DepartmentValues ==
    {Undef, Null, Str(<<>>), Num(Dec(7, 0)), Bool(TRUE), Arr(<<Str(LEGAL)>>), Obj(<<>>)}
    \cup {Str(s) : s \in {<<"f","i","n","a","n","c","e">>, <<"L","e","g","a","l">>, <<"O","P","E","R","A","T","I","O","N","S">>, <<"h","r">>, <<"c","o","n","s","t","r","u","c","t","o","r">>}}

ConfidenceValues ==
    {Undef, Null, Bool(TRUE), Bool(FALSE), Str(<<>>),
     Arr(<<>>), Arr(<<Num(Dec(7, 1))>>), Arr(<<Num(Dec(7, 1)), Num(Dec(2, 1))>>),
     Arr(<<Str(<<"x">>)>>), Obj(<<>>), Obj(<<Member("toString", Null)>>)}
    \cup {Num(Dec(m, 2)) : m \in {-10, 0, 30, 59, 60, 79, 80, 92, 100, 101, 150}}
    \cup {Str(s) : s \in {<<"0",".","7">>, <<"0",".","7","a","b","c">>, <<"a","b","c">>, <<" ","0",".","5">>, <<"1",".","5","x">>, <<"-","0",".","5">>, <<"1","e","-","1">>, <<".","5">>, <<"I","n","f","i","n","i","t","y">>, <<"0",".","9"," ","a","p","p","r","o","x">>}}

SampleData == Obj(<<Member("vendor", Str(<<"A","c","m","e">>)),
                    Member("amount", Num(Dec(500, 0)))>>)
SampleReasoning == Str(<<"I","n","v","o","i","c","e"," ","#","1","2","3">>)
SampleActions == Arr(<<Str(<<"P","a","y">>)>>)

\* a candidate object; an undefined value leaves the member out
Candidate(dt, cf, dp, rc, data, why, acts) ==
    LET all == <<Member("documentType", dt), Member("confidence", cf),
                 Member("department", dp), Member("routingConfidence", rc),
                 Member("extractedData", data), Member("reasoning", why),
                 Member("suggestedActions", acts)>>
    IN  Obj(SelectSeq(all, LAMBDA m : m.v.t # "undef"))

GoodCandidate ==
    Candidate(Str(<<"I","n","v","o","i","c","e">>), Num(Dec(92, 2)), Str(FINANCE),
              Num(Dec(9, 1)), SampleData, SampleReasoning, SampleActions)

\* candidates that differ from the good one in one field
OneFieldCandidates ==
    {Candidate(dt, Num(Dec(92, 2)), Str(FINANCE), Num(Dec(9, 1)),
               SampleData, SampleReasoning, SampleActions) : dt \in DocumentTypeValues}
    \cup {Candidate(Str(INVOICE), cf, Str(FINANCE), Num(Dec(9, 1)),
                    SampleData, SampleReasoning, SampleActions) : cf \in ConfidenceValues}
    \cup {Candidate(Str(INVOICE), Num(Dec(92, 2)), dp, Num(Dec(9, 1)),
                    SampleData, SampleReasoning, SampleActions) : dp \in DepartmentValues}
    \cup {Candidate(Str(INVOICE), Num(Dec(92, 2)), Str(FINANCE), rc,
                    SampleData, SampleReasoning, SampleActions) : rc \in ConfidenceValues}
    \cup {Candidate(Str(INVOICE), Num(Dec(92, 2)), Str(FINANCE), Num(Dec(9, 1)),
                    x[1], x[2], x[3]) :
            x \in {<<Undef, Undef, Undef>>, <<Null, Str(<<>>), Null>>,
                   <<Str(<<"n","o","n","e">>), Num(Dec(1, 0)), Str(<<"P","a","y">>)>>,
                   <<Arr(<<>>), Obj(<<>>), Arr(<<Num(Zero), Null>>)>>,
                   <<Num(Zero), Bool(TRUE), Obj(<<>>)>>}}

\* candidates whose four validated fields vary together
ManyFieldCandidates ==
    {Candidate(dt, cf, dp, rc, SampleData, SampleReasoning, SampleActions) :
        dt \in DocumentTypeValues, cf \in ConfidenceValues, dp \in DepartmentValues,
        rc \in {Num(Dec(9, 1))}}

\* the text of a decoded object: JSON.stringify, as tokens
RECURSIVE Render(_)
RECURSIVE RenderMembers(_, _)
RenderMembers(o, i) ==
    IF i > Len(o) THEN <<>>
    ELSE (IF o[i].v.t = "obj" THEN <<Key(o[i].k)>> \o Render(o[i].v)
          ELSE <<M(o[i].k, o[i].v)>>)
         \o RenderMembers(o, i + 1)
Render(v) == <<LB>> \o RenderMembers(v.o, 1) \o <<RB>>

\* replies of the external model: a JSON object alone or inside prose, and
\* texts that hold no object or a broken one
Replies ==
    {Render(c) : c \in OneFieldCandidates}
    \cup {<<Prose>> \o Render(GoodCandidate),
          Render(GoodCandidate) \o <<Prose>>,
          <<Prose>> \o Render(GoodCandidate) \o <<Prose>>,
          Render(GoodCandidate) \o <<Prose, LB, Prose, RB>>,
          Render(GoodCandidate) \o Render(Fallback),
          <<LB, RB>>,
          <<>>, <<Prose>>, <<LB>>, <<RB>>, <<RB, Prose, LB>>,
          <<LB, Prose, RB>>, <<LB, Key("extractedData"), RB>>,
          <<LB, M("documentType", Str(INVOICE))>>,
          <<LB, LB, M("documentType", Str(INVOICE)), RB, RB>>}

-----------------------------------------------------------------------------
(* State                                                                     *)

Requests == {"r1"}

Set(f, r, v) == [f EXCEPT ![r] = v]

NoReply == [got |-> FALSE, t |-> <<>>]

Init ==
    /\ pc = [r \in Requests |-> "idle"]
    /\ op = [r \in Requests |-> "none"]
    /\ arg = [r \in Requests |-> Undef]
    /\ file = [r \in Requests |-> NoFile]
    /\ text = [r \in Requests |-> NoText]
    /\ reply = [r \in Requests |-> NoReply]
    /\ ret = [r \in Requests |-> NoOutcome]
    /\ disk = {}
    /\ unlinks = [r \in Requests |-> {}]
    /\ extCalls = [r \in Requests |-> 0]
    /\ extractions = [r \in Requests |-> 0]

\* the disk: whether a path exists, what is stored under it, and the disk
\* after a file is written (an existing one is overwritten) or removed
OnDisk(path) == \E e \in disk : e.path = path
StoredBody(path) == (CHOOSE e \in disk : e.path = path).body
RemoveFile(path) == {e \in disk : e.path # path}
WriteFile(path, body) == RemoveFile(path) \cup {[path |-> path, body |-> body]}

\* the file f as a read of its path finds it
ReadFile(f) == IF OnDisk(f.path) THEN [f EXCEPT !.body = StoredBody(f.path)] ELSE f

\* the invocation ends with this outcome
Done(r, outcome) ==
    /\ pc' = Set(pc, r, "done")
    /\ ret' = Set(ret, r, outcome)

\* DocumentService.cleanupTempFile when `on`: fs.unlink is attempted; it may
\* fail, which is logged and nothing more
cleanupTempFile(r, on, path, unlinkOk) ==
    IF on
    THEN /\ unlinks' = Set(unlinks, r, unlinks[r] \cup {path})
         /\ disk' = IF unlinkOk THEN RemoveFile(path) ELSE disk
    ELSE UNCHANGED <<unlinks, disk>>

FileFlow(r) == op[r] \in {"POST /upload", "processDocument"}

-----------------------------------------------------------------------------
(* POST /api/documents/upload:                                               *)
(*   upload.single('document'), validateFileUpload, uploadAndClassifyDocument *)

\* fileFilter of the multer configuration
fileFilter(mimetype) == mimetype \in allowedFileTypes

\* upload.single('document').  A part the filter refuses is not stored; a part
\* over limits.fileSize is stored in part and removed again by multer; both
\* end in the error middleware, with an error that has no status code.
\* Otherwise the part is stored under a fresh name and described in req.file.
PostUpload(r, up, suffix) ==
    LET path == [name |-> up.base, suffix |-> suffix]
    IN  /\ pc[r] = "idle"
        /\ op' = Set(op, r, "POST /upload")
        /\ arg' = Set(arg, r, up)
        /\ IF ~up.hasFile
           THEN /\ pc' = Set(pc, r, "validateFileUpload")
                /\ UNCHANGED <<file, ret, disk, unlinks>>
           ELSE IF ~fileFilter(up.mimetype)
           THEN /\ Done(r, Failed(OtherError("File type is not supported")))
                /\ UNCHANGED <<file, disk, unlinks>>
           ELSE IF up.size > maxFileSize
           THEN /\ Done(r, Failed(OtherError("File too large")))
                /\ unlinks' = Set(unlinks, r, unlinks[r] \cup {path})
                /\ disk' = RemoveFile(path)
                /\ UNCHANGED file
           ELSE /\ pc' = Set(pc, r, "validateFileUpload")
                /\ file' = Set(file, r, File(up.base, up.ext, up.mimetype,
                                             up.size, path, up.body))
                /\ disk' = WriteFile(path, up.body)
                /\ UNCHANGED <<ret, unlinks>>
        /\ UNCHANGED <<text, reply, extCalls, extractions>>

\* validateFileUpload: the error of the first check that fails, or NoError
validateFileUploadError(f) ==
    IF ~f.present THEN ApiError(400, "Please upload a document file")
    ELSE IF f.size > maxFileSize THEN ApiError(400, "File size exceeds maximum limit")
    ELSE IF f.mimetype \notin allowedFileTypes
    THEN ApiError(400, "File type is not supported")
    ELSE IF ExtLower(f.ext) \notin supportedExtensions
    THEN ApiError(400, "File extension is not supported")
    ELSE IF f.size = 0 THEN ApiError(400, "Uploaded file is empty")
    ELSE NoError

\* validateFileUpload: answers with the error's status, or calls next()
ValidateFileUpload(r) ==
    LET error == validateFileUploadError(file[r])
    IN  /\ pc[r] = "validateFileUpload"
        /\ IF error.apiError
           THEN Done(r, Failed(error))
           ELSE pc' = Set(pc, r, "uploadAndClassifyDocument") /\ UNCHANGED ret
        /\ UNCHANGED <<op, arg, file, text, reply, disk, unlinks, extCalls, extractions>>

\* uploadAndClassifyDocument, up to its call of documentService.processDocument
UploadAndClassifyDocument(r) ==
    /\ pc[r] = "uploadAndClassifyDocument"
    /\ IF ~file[r].present
       THEN Done(r, Failed(ApiError(400, "No file uploaded")))
       ELSE pc' = Set(pc, r, "processDocument") /\ UNCHANGED ret
    /\ UNCHANGED <<op, arg, file, text, reply, disk, unlinks, extCalls, extractions>>

-----------------------------------------------------------------------------
(* DocumentService.processDocument                                           *)

\* a caller other than the upload route invokes processDocument(f); onDisk is
\* whether the file f names exists
CallProcessDocument(r, f, onDisk) ==
    /\ pc[r] = "idle"
    /\ op' = Set(op, r, "processDocument")
    /\ arg' = Set(arg, r, f)
    /\ file' = Set(file, r, f)
    /\ disk' = IF f.present /\ onDisk THEN WriteFile(f.path, f.body) ELSE disk
    /\ pc' = Set(pc, r, "processDocument")
    /\ UNCHANGED <<text, reply, ret, unlinks, extCalls, extractions>>

\* processDocumentError without the size check of lines 190-192 (C9 fails of it)
processDocumentError_noSize(f) ==
    IF ~f.present THEN ApiError(400, "No file provided")
    ELSE IF f.mimetype \notin allowedFileTypes
    THEN ApiError(400, "File type is not supported")
    ELSE NoError

\* lines 183-197: the error of the first check that fails, or NoError
processDocumentError(f) ==
    IF ~f.present THEN ApiError(400, "No file provided")
    ELSE IF f.size > maxFileSize THEN ApiError(400, "File size exceeds maximum limit")
    ELSE IF f.mimetype \notin allowedFileTypes
    THEN ApiError(400, "File type is not supported")
    ELSE NoError

\* processDocument up to its first await: the checks, then the call of
\* extractTextFromFile.  A failed check goes through catch and finally;
\* tempFilePath is set once the file is known to be there.
ProcessDocument(r, unlinkOk) ==
    LET f     == file[r]
        error == processDocumentError(f)
    IN  /\ pc[r] = "processDocument"
        /\ IF error.apiError
           THEN /\ Done(r, Failed(processDocumentCatch(error)))
                /\ cleanupTempFile(r, f.present /\ f.path # NoPath, f.path, unlinkOk)
                /\ UNCHANGED extractions
           ELSE /\ pc' = Set(pc, r, "extractTextFromFile")
                /\ extractions' = Set(extractions, r, extractions[r] + 1)
                /\ UNCHANGED <<ret, disk, unlinks>>
        /\ UNCHANGED <<op, arg, file, text, reply, extCalls>>

\* classifyExtracted going on to the classification although the extraction
\* has failed (C12 fails of it)
classifyExtracted_ignoresFailure(extractedText) ==
    classifyDocumentCheck(truncateExtracted(IF extractedText.ok THEN extractedText.val
                                            ELSE SourceText(1, FALSE)))

\* lines 203-212: the extracted text is truncated and handed to
\* geminiService.classifyDocument, whose check comes before the external call
classifyExtracted(extractedText) ==
    IF extractedText.ok
    THEN classifyDocumentCheck(truncateExtracted(extractedText.val))
    ELSE extractedText

\* the invocation starts the external call on the text `checked` holds, or
\* ends with the error it holds
StartExternalCall(r, checked, error) ==
    IF checked.ok
    THEN /\ text' = Set(text, r, checked.val.x)
         /\ extCalls' = Set(extCalls, r, extCalls[r] + 1)
         /\ pc' = Set(pc, r, "generateContent")
         /\ UNCHANGED ret
    ELSE /\ Done(r, Failed(error))
         /\ UNCHANGED <<text, extCalls>>

\* extractTextFromFile answers: on an error catch and finally run; otherwise
\* the text is truncated and geminiService.classifyDocument is called, which
\* starts the external call
ExtractTextFromFileEnds(r, checked, unlinkOk) ==
    /\ StartExternalCall(r, checked, processDocumentCatch(checked.err))
    /\ cleanupTempFile(r, ~checked.ok /\ file[r].path # NoPath, file[r].path, unlinkOk)

ExtractTextFromFile(r, readOk, unlinkOk) ==
    /\ pc[r] = "extractTextFromFile"
    /\ ExtractTextFromFileEnds(r,
           classifyExtracted(extractTextFromFile(ReadFile(file[r]), OnDisk(file[r].path),
                                                 readOk)),
           unlinkOk)
    /\ UNCHANGED <<op, arg, file, reply, extractions>>

-----------------------------------------------------------------------------
(* POST /api/documents/classify-text:                                        *)
(*   express.json, validateTextContent, classifyTextContent                  *)

\* express.json({limit: "16kb"}): the size of the body in bytes
jsonLimit == 16384
BodyTooLarge(content) == content.t = "text" /\ Length(content.x) + 14 > jsonLimit

\* the body parser: a body over the limit is refused with status 413
PostClassifyText(r, content) ==
    /\ pc[r] = "idle"
    /\ op' = Set(op, r, "POST /classify-text")
    /\ arg' = Set(arg, r, content)
    /\ IF BodyTooLarge(content)
       THEN Done(r, Failed(ApiError(413, "request entity too large")))
       ELSE pc' = Set(pc, r, "validateTextContent") /\ UNCHANGED ret
    /\ UNCHANGED <<file, text, reply, disk, unlinks, extCalls, extractions>>

\* validateTextContent: the error of the first check that fails, or NoError
validateTextContentError(content) ==
    IF ~ContentTruthy(content)
    THEN ApiError(400, "Text content is required in the request body")
    ELSE IF content.t # "text" THEN ApiError(400, "Text content must be a string")
    ELSE IF TrimIsEmpty(content.x) THEN ApiError(400, "Text content cannot be empty")
    ELSE NoError

ValidateTextContent(r) ==
    LET error == validateTextContentError(arg[r])
    IN  /\ pc[r] = "validateTextContent"
        /\ IF error.apiError
           THEN Done(r, Failed(error))
           ELSE pc' = Set(pc, r, "classifyTextContent") /\ UNCHANGED ret
        /\ UNCHANGED <<op, arg, file, text, reply, disk, unlinks, extCalls, extractions>>

\* classifyTextContent, up to its call of documentService.classifyText
ClassifyTextContent(r) ==
    /\ pc[r] = "classifyTextContent"
    /\ IF ~ContentTruthy(arg[r])
       THEN Done(r, Failed(ApiError(400, "Text content is required")))
       ELSE pc' = Set(pc, r, "classifyText") /\ UNCHANGED ret
    /\ UNCHANGED <<op, arg, file, text, reply, disk, unlinks, extCalls, extractions>>

-----------------------------------------------------------------------------
(* DocumentService.classifyText                                              *)

\* a caller other than the route invokes classifyText(content)
CallClassifyText(r, content) ==
    /\ pc[r] = "idle"
    /\ op' = Set(op, r, "classifyText")
    /\ arg' = Set(arg, r, content)
    /\ pc' = Set(pc, r, "classifyText")
    /\ UNCHANGED <<file, text, reply, ret, disk, unlinks, extCalls, extractions>>

\* classifyTextError without the check of lines 247-249 (C8 fails of it)
classifyTextError_noTrim(textContent) ==
    IF ~ContentTruthy(textContent) \/ textContent.t # "text"
    THEN ApiError(400, "Text content is required")
    ELSE NoError

\* lines 243-249: the error of the first check that fails, or NoError
classifyTextError(textContent) ==
    IF ~ContentTruthy(textContent) \/ textContent.t # "text"
    THEN ApiError(400, "Text content is required")
    ELSE IF TrimIsEmpty(textContent.x) THEN ApiError(400, "Text content cannot be empty")
    ELSE NoError

\* lines 243-260: the checks, the truncation and the check of classifyDocument
classifyContent(textContent, error) ==
    IF error.apiError THEN Throw(error)
    ELSE classifyDocumentCheck(truncateContent(textContent.x))

ClassifyTextStarts(r, checked) ==
    StartExternalCall(r, checked, classifyTextCatch(checked.err))

\* classifyText up to its await: the checks, the truncation and the call of
\* geminiService.classifyDocument, which starts the external call
ClassifyText(r) ==
    /\ pc[r] = "classifyText"
    /\ ClassifyTextStarts(r, classifyContent(arg[r], classifyTextError(arg[r])))
    /\ UNCHANGED <<op, arg, file, reply, disk, unlinks, extractions>>

-----------------------------------------------------------------------------
(* The external call of geminiService.classifyDocument answers               *)

\* the metadata processDocument and classifyText attach
metadataOf(r) ==
    IF FileFlow(r)
    THEN [fileName |-> <<file[r].base, file[r].ext>>, fileSize |-> file[r].size,
          mimeType |-> file[r].mimetype]
    ELSE [contentLength |-> Length(arg[r].x)]

\* what the caller of classifyDocument returns or throws for its outcome
callerOutcome(r, classification) ==
    IF classification.ok
    THEN Returned(buildClassificationResult(classification.val, metadataOf(r)))
    ELSE Failed(IF FileFlow(r) THEN processDocumentCatch(classification.err)
                ELSE classifyTextCatch(classification.err))

\* model.generateContent (or response.text()) throws an error of the client
\* library: the catch of classifyDocument turns it into an ApiError 500, which
\* the caller's catch rethrows; finally cleans up
GenerateContentFails(r, unlinkOk) ==
    /\ pc[r] = "generateContent"
    /\ Done(r, callerOutcome(r, classifyDocumentCatch(
                                    Throw(OtherError("generateContent failed")))))
    /\ cleanupTempFile(r, FileFlow(r), file[r].path, unlinkOk)
    /\ UNCHANGED <<op, arg, file, text, reply, extCalls, extractions>>

\* model.generateContent answers with the text t: classifyDocument decodes and
\* sanitizes it, the caller builds the result and returns it; finally cleans up
GenerateContentReplies(r, t, unlinkOk) ==
    /\ pc[r] = "generateContent"
    /\ reply' = Set(reply, r, [got |-> TRUE, t |-> t])
    /\ Done(r, callerOutcome(r, classifyReply(t)))
    /\ cleanupTempFile(r, FileFlow(r), file[r].path, unlinkOk)
    /\ UNCHANGED <<op, arg, file, text, extCalls, extractions>>

-----------------------------------------------------------------------------
(* The pure methods, called on their own                                     *)

AdvisorDepartments ==
    validDepartments \cup {k_constructor, k_toString, k_proto, <<"h","r">>, <<>>,
                           <<"F","i","n","a","n","c","e">>}
AdvisorConfidences ==
    {Dec(m, 2) : m \in {0, 30, 59, 60, 61, 79, 80, 81, 90, 92, 100}}

CallGetConfidenceLevel(r, confidence) ==
    /\ pc[r] = "idle"
    /\ op' = Set(op, r, "getConfidenceLevel")
    /\ arg' = Set(arg, r, [confidence |-> confidence])
    /\ Done(r, Returned([level |-> getConfidenceLevel(confidence)]))
    /\ UNCHANGED <<file, text, reply, disk, unlinks, extCalls, extractions>>

CallGetRoutingRecommendation(r, department, confidence) ==
    /\ pc[r] = "idle"
    /\ op' = Set(op, r, "getRoutingRecommendation")
    /\ arg' = Set(arg, r, [department |-> department, confidence |-> confidence])
    /\ Done(r, Returned([recommendation |->
                            getRoutingRecommendation(department, confidence)]))
    /\ UNCHANGED <<file, text, reply, disk, unlinks, extCalls, extractions>>

\* the outcome of a method called on its own
methodOutcome(out) == IF out.ok THEN Returned(out.val) ELSE Failed(out.err)

CallValidateConfidence(r, confidence) ==
    /\ pc[r] = "idle"
    /\ op' = Set(op, r, "validateConfidence")
    /\ arg' = Set(arg, r, confidence)
    /\ Done(r, methodOutcome(validateConfidence(confidence)))
    /\ UNCHANGED <<file, text, reply, disk, unlinks, extCalls, extractions>>

CallValidateClassificationResult(r, candidate) ==
    /\ pc[r] = "idle"
    /\ op' = Set(op, r, "validateClassificationResult")
    /\ arg' = Set(arg, r, candidate)
    /\ Done(r, methodOutcome(validateClassificationResult(candidate)))
    /\ UNCHANGED <<file, text, reply, disk, unlinks, extCalls, extractions>>

-----------------------------------------------------------------------------

\* the candidates validateClassificationResult is called with on its own
SanitizerCandidates == ManyFieldCandidates \cup OneFieldCandidates

(* The actions: each entry point with the inputs it may be given, and each   *)
(* later step of an invocation                                               *)

UploadRequest(r) ==
    pc[r] = "idle" /\ \E up \in Uploads, suffix \in Suffixes : PostUpload(r, up, suffix)
ProcessDocumentCall(r) ==
    pc[r] = "idle" /\ \E f \in DirectFiles, onDisk \in BOOLEAN :
                          CallProcessDocument(r, f, onDisk)
ProcessDocumentChecks(r) == \E unlinkOk \in BOOLEAN : ProcessDocument(r, unlinkOk)
ExtractionEnds(r) ==
    \E readOk \in BOOLEAN, unlinkOk \in BOOLEAN : ExtractTextFromFile(r, readOk, unlinkOk)
ClassifyTextRequest(r) ==
    pc[r] = "idle" /\ \E content \in Contents : PostClassifyText(r, content)
ClassifyTextCall(r) ==
    pc[r] = "idle" /\ \E content \in Contents : CallClassifyText(r, content)
ExternalCallFails(r) ==
    pc[r] = "generateContent" /\ \E unlinkOk \in BOOLEAN : GenerateContentFails(r, unlinkOk)
ExternalCallReplies(r) ==
    pc[r] = "generateContent" /\ \E t \in Replies, unlinkOk \in BOOLEAN :
                                     GenerateContentReplies(r, t, unlinkOk)
GetConfidenceLevelCall(r) ==
    pc[r] = "idle" /\ \E c \in AdvisorConfidences : CallGetConfidenceLevel(r, c)
GetRoutingRecommendationCall(r) ==
    pc[r] = "idle" /\ \E d \in AdvisorDepartments, c \in AdvisorConfidences :
                          CallGetRoutingRecommendation(r, d, c)
ValidateConfidenceCall(r) ==
    pc[r] = "idle" /\ \E v \in ConfidenceValues : CallValidateConfidence(r, v)
ValidateClassificationResultCall(r) ==
    pc[r] = "idle" /\ \E c \in SanitizerCandidates :
                          CallValidateClassificationResult(r, c)

Next ==
    \E r \in Requests :
        \/ UploadRequest(r)
        \/ ValidateFileUpload(r)
        \/ UploadAndClassifyDocument(r)
        \/ ProcessDocumentCall(r)
        \/ ProcessDocumentChecks(r)
        \/ ExtractionEnds(r)
        \/ ClassifyTextRequest(r)
        \/ ValidateTextContent(r)
        \/ ClassifyTextContent(r)
        \/ ClassifyTextCall(r)
        \/ ClassifyText(r)
        \/ ExternalCallFails(r)
        \/ ExternalCallReplies(r)
        \/ GetConfidenceLevelCall(r)
        \/ GetRoutingRecommendationCall(r)
        \/ ValidateConfidenceCall(r)
        \/ ValidateClassificationResultCall(r)

Spec == Init /\ [][Next]_vars

-----------------------------------------------------------------------------
(* Concurrent requests.  The server handles every request on one event loop: *)
(* a handler runs up to its next await, and the steps of different requests  *)
(* interleave at the awaits, which are the steps of the actions above.  File *)
(* system calls fail here only when the file is missing.                     *)

\* the requests in progress at once
NClients == 3
Clients == 1..NClients

\* process.env.MAX_CONCURRENT_REQUESTS as the deployment sets it (0: not set)
EnvMaxConcurrentRequests == 2

\* config.maxConcurrentRequests
maxConcurrentRequests ==
    IF EnvMaxConcurrentRequests > 0 THEN EnvMaxConcurrentRequests ELSE 10

\* uploads that differ in what the file holds, under one original name
ConcurrentUploads ==
    {Upload("notes", ".txt", "text/plain", n, [pdfOk |-> FALSE, text |-> SourceText(n, FALSE)])
        : n \in 1..2}

ConcurrentContents == {TextVal(SourceText(1, FALSE))}

ConcurrentReplies == {Render(GoodCandidate), <<Prose>>}

InitC ==
    /\ pc = [r \in Clients |-> "idle"]
    /\ op = [r \in Clients |-> "none"]
    /\ arg = [r \in Clients |-> Undef]
    /\ file = [r \in Clients |-> NoFile]
    /\ text = [r \in Clients |-> NoText]
    /\ reply = [r \in Clients |-> NoReply]
    /\ ret = [r \in Clients |-> NoOutcome]
    /\ disk = {}
    /\ unlinks = [r \in Clients |-> {}]
    /\ extCalls = [r \in Clients |-> 0]
    /\ extractions = [r \in Clients |-> 0]

ConcurrentUpload(r) ==
    pc[r] = "idle" /\ \E up \in ConcurrentUploads, suffix \in Suffixes :
                          PostUpload(r, up, suffix)
ConcurrentClassifyText(r) ==
    pc[r] = "idle" /\ \E content \in ConcurrentContents : PostClassifyText(r, content)
ConcurrentProcessDocument(r) == ProcessDocument(r, TRUE)
ConcurrentExtraction(r) == ExtractTextFromFile(r, TRUE, TRUE)
ConcurrentCallFails(r) == GenerateContentFails(r, TRUE)
ConcurrentCallReplies(r) ==
    pc[r] = "generateContent" /\ \E t \in ConcurrentReplies :
                                     GenerateContentReplies(r, t, TRUE)

NextC ==
    \E r \in Clients :
        \/ ConcurrentUpload(r)
        \/ ValidateFileUpload(r)
        \/ UploadAndClassifyDocument(r)
        \/ ConcurrentProcessDocument(r)
        \/ ConcurrentExtraction(r)
        \/ ConcurrentClassifyText(r)
        \/ ValidateTextContent(r)
        \/ ClassifyTextContent(r)
        \/ ClassifyText(r)
        \/ ConcurrentCallFails(r)
        \/ ConcurrentCallReplies(r)

SpecC == InitC /\ [][NextC]_vars

-----------------------------------------------------------------------------
(* The claims                                                                *)

\* the entry points that run the classification pipeline
Pipeline(r) ==
    op[r] \in {"POST /upload", "processDocument", "POST /classify-text", "classifyText"}

\* the invocation has ended by returning a classification result
ReturnedResult(r) == pc[r] = "done" /\ Pipeline(r) /\ ret[r].kind = "ok"

\* the reply of the external model, decoded
Decoded(r) == parseReply(reply[r].t).o

\* C1: whatever text the external model replies with, a result returned by
\* processDocument or classifyText has its documentType among the seven valid
\* types, its department among the five valid departments, confidence and
\* routingConfidence numbers within [0,1], and confidenceLevel one of high,
\* medium and low.
C1_ResultWithinSchema ==
    \A r \in Requests :
        ReturnedResult(r) =>
            /\ ret[r].val.documentType.t = "str"
            /\ ret[r].val.documentType.s \in
                   {INVOICE, PURCHASE_ORDER, CONTRACT, RECEIPT, PROPOSAL, AGREEMENT,
                    DOC_OTHER}
            /\ ret[r].val.department.t = "str"
            /\ ret[r].val.department.s \in
                   {FINANCE, PROCUREMENT, LEGAL, OPERATIONS, GENERAL}
            /\ ret[r].val.confidence.t = "num"
            /\ InUnitInterval(ret[r].val.confidence.n)
            /\ ret[r].val.routingConfidence.t = "num"
            /\ InUnitInterval(ret[r].val.routingConfidence.n)
            /\ ret[r].val.confidenceLevel \in {"high", "medium", "low"}

\* a result was returned for a reply whose confidence is 1.5
C1_Witness ==
    \E r \in Requests :
        /\ ReturnedResult(r)
        /\ reply[r].got
        /\ Get(Decoded(r), "confidence") = Num(Dec(15, 1))
        /\ ret[r].val.confidence = Num(Half)

\* C2: validateClassificationResult returns a result for every candidate,
\* whatever the types of its fields, and so an invocation whose external call
\* has answered never fails.
C2_SanitizeNeverRaises ==
    \A r \in Requests :
        pc[r] = "done" =>
            /\ op[r] = "validateClassificationResult" => ret[r].kind = "ok"
            /\ (Pipeline(r) /\ reply[r].got) => ret[r].kind = "ok"

\* the reply holds no object, or one JSON.parse refuses
NoObjectDecoded(t) == jsonMatch(t) = <<>> \/ ~JSONparse(jsonMatch(t)).ok

\* C3: when the reply of the external model holds no JSON object, or holds one
\* that fails to decode, the invocation does not fail: its result is the fixed
\* fallback (other, 0.3, general, 0.3, the note, the reasoning and the two
\* suggested actions), unchanged by the sanitizer, with confidenceLevel low.
C3_FallbackOnUndecodableReply ==
    \A r \in Requests :
        (pc[r] = "done" /\ Pipeline(r) /\ reply[r].got /\ NoObjectDecoded(reply[r].t)) =>
            /\ ret[r].kind = "ok"
            /\ ret[r].val.documentType = Str(<<"o","t","h","e","r">>)
            /\ ret[r].val.confidence = Num(Dec(3, 1))
            /\ ret[r].val.department = Str(<<"g","e","n","e","r","a","l">>)
            /\ ret[r].val.routingConfidence = Num(Dec(3, 1))
            /\ ret[r].val.extractedData = Obj(<<Member("note", Str(FallbackNote))>>)
            /\ ret[r].val.reasoning = Str(FallbackReasoning)
            /\ ret[r].val.suggestedActions =
                   Arr(<<Str(FallbackAction1), Str(FallbackAction2)>>)
            /\ ret[r].val.confidenceLevel = "low"

\* the external model replied with prose only and a result was returned
C3_Witness ==
    \E r \in Requests :
        /\ pc[r] = "done" /\ Pipeline(r)
        /\ reply[r].got /\ reply[r].t = <<Prose>>
        /\ ret[r].kind = "ok"

\* the external call was made and failed: the invocation is over without a reply
ExternalCallFailed(r) == pc[r] = "done" /\ extCalls[r] > 0 /\ ~reply[r].got

\* C4: when the external call itself fails, processDocument and classifyText
\* (and classifyDocument, which they call) fail with status 500 and return no
\* classification result, the fallback included.
C4_ExternalFailureIsServerFault ==
    \A r \in Requests :
        ExternalCallFailed(r) =>
            /\ ret[r].kind = "error"
            /\ ret[r].status = 500
            /\ ret[r].val = Undef

\* the external call of a processDocument invocation failed
C4_Witness ==
    \E r \in Requests :
        ExternalCallFailed(r) /\ op[r] = "processDocument" /\ ret[r].status = 500

\* C5: when an upload request is over and the upload mechanism had stored a
\* transient file for it, the deletion of that file has been attempted,
\* whichever way the request ended.
C5_CleanupOnEveryExit ==
    \A r \in Requests :
        (pc[r] = "done" /\ op[r] = "POST /upload" /\ file[r].present) =>
            file[r].path \in unlinks[r]

\* the text an invocation works on: what the file holds, or the content given
Original(r) == IF FileFlow(r) THEN file[r].body.text ELSE arg[r].x

\* C6: in processDocument and in classifyText, the text passed to the
\* classifier for a text of more than 50,000 characters is its first 50,000
\* characters followed by the truncation marker, 50,015 characters in all; a
\* text of at most 50,000 characters is passed unchanged.
C6_Truncation ==
    \A r \in Requests :
        (Pipeline(r) /\ extCalls[r] > 0) =>
            IF Length(Original(r)) > 50000
            THEN /\ text[r] = [n |-> 50000, ws |-> Original(r).ws,
                               sfx |-> <<"\n",".",".",".","(","t","r","u","n","c","a","t","e","d",")">>]
                 /\ Length(text[r]) = 50000 + 15
            ELSE text[r] = Original(r)

\* processDocument passed on a text that was over the cap, and classifyText
\* one of exactly 50,000 characters
C6_Witness ==
    \E r \in Requests :
        /\ Pipeline(r) /\ extCalls[r] > 0
        /\ \/ FileFlow(r) /\ Length(Original(r)) = 50001
           \/ op[r] = "classifyText" /\ Length(Original(r)) = 50001

\* the characters a decimal numeral is written with
NumeralChars ==
    {"0", "1", "2", "3", "4", "5", "6", "7", "8", "9", "+", "-", ".", "e", "E"}

\* a value that is no number: absent, null, a boolean, or a string holding a
\* character no numeral holds
NonNumeric(v) ==
    \/ v.t \in {"undef", "null", "bool"}
    \/ v.t = "str" /\ \E i \in 1..Len(v.s) : v.s[i] \notin NumeralChars

\* C7: validateConfidence answers 0.5 for every value that is not numeric
\* (absent, null, a boolean, a string that is no number, such as one with
\* trailing non-numeric characters) or that lies outside [0,1], and answers a
\* number within [0,1] with that number.
C7_NonNumericGivesHalf ==
    \A r \in Requests :
        (pc[r] = "done" /\ op[r] = "validateConfidence") =>
            /\ NonNumeric(arg[r]) => ret[r].val = Num(Half)
            /\ (arg[r].t = "num" /\ ~InUnitInterval(arg[r].n)) => ret[r].val = Num(Half)
            /\ (arg[r].t = "num" /\ InUnitInterval(arg[r].n)) => ret[r].val = arg[r]

\* content that is no string, the empty string, or white space only
BadContent(v) == v.t # "text" \/ Length(v.x) = 0 \/ TrimIsEmpty(v.x)

\* C8: classifyText called with a value that is not a string, with the empty
\* string or with white space only fails with status 400 and the external
\* call is never made; the same content sent to the text route is refused
\* with a client error, also without an external call.
C8_BadTextRejected ==
    \A r \in Requests :
        /\ (op[r] = "classifyText" /\ BadContent(arg[r])) =>
               /\ extCalls[r] = 0
               /\ pc[r] # "generateContent"
               /\ pc[r] = "done" => ret[r].kind = "error" /\ ret[r].status = 400
        /\ (op[r] = "POST /classify-text" /\ BadContent(arg[r])) =>
               /\ extCalls[r] = 0
               /\ pc[r] \notin {"classifyText", "generateContent"}
               /\ pc[r] = "done" => ret[r].kind = "error" /\ ret[r].status \in {400, 413}

\* classifyText was called with white space only and has failed
C8_Witness ==
    \E r \in Requests :
        /\ op[r] = "classifyText" /\ pc[r] = "done"
        /\ arg[r].t = "text" /\ Length(arg[r].x) > 0 /\ TrimIsEmpty(arg[r].x)
        /\ ret[r].status = 400

\* a file over the maximum size, or of a type that is not allowed
BadFile(f) ==
    f.present /\ (f.size > 10 * 1024 * 1024
                  \/ f.mimetype \notin {"application/pdf", "text/plain"})

\* C9: processDocument called with a file whose size exceeds the maximum or
\* whose type is not allowed fails with status 400, before any text is
\* extracted and without an external call.
C9_BadFileRejected ==
    \A r \in Requests :
        (FileFlow(r) /\ BadFile(file[r])) =>
            /\ extractions[r] = 0
            /\ extCalls[r] = 0
            /\ pc[r] \notin {"extractTextFromFile", "generateContent"}
            /\ pc[r] = "done" => ret[r].kind = "error" /\ ret[r].status = 400

\* processDocument was called with a text file over the maximum size and has failed
C9_Witness ==
    \E r \in Requests :
        /\ op[r] = "processDocument" /\ pc[r] = "done"
        /\ file[r].present /\ file[r].size > 10 * 1024 * 1024
        /\ file[r].mimetype = "text/plain"
        /\ ret[r].status = 400

\* the display name of a department: the fixed table, and General
\* Administration for every other department
DisplayName(department) ==
    CASE department = <<"f","i","n","a","n","c","e">> -> "Finance Department"
      [] department = <<"p","r","o","c","u","r","e","m","e","n","t">> -> "Procurement Department"
      [] department = <<"l","e","g","a","l">> -> "Legal Department"
      [] department = <<"o","p","e","r","a","t","i","o","n","s">> -> "Operations Department"
      [] OTHER -> "General Administration"

\* C10: getConfidenceLevel(c) is high for c >= 0.8, medium for 0.6 <= c < 0.8
\* and low otherwise; getRoutingRecommendation(department, rc) names the
\* department by its display name, General Administration for a department
\* outside the table, in the automatic-routing template for rc >= 0.8, the
\* suggested-routing template for 0.6 <= rc < 0.8 and the
\* manual-review-required template otherwise.
C10_LevelsAndRecommendations ==
    \A r \in Requests :
        pc[r] = "done" =>
            /\ op[r] = "getConfidenceLevel" =>
                   ret[r].val.level =
                       IF NumGe(arg[r].confidence, Dec(8, 1)) THEN "high"
                       ELSE IF NumGe(arg[r].confidence, Dec(6, 1)) THEN "medium"
                       ELSE "low"
            /\ op[r] = "getRoutingRecommendation" =>
                   ret[r].val.recommendation =
                       IF NumGe(arg[r].confidence, Dec(8, 1))
                       THEN <<"Recommended for automatic routing to ",
                              DisplayName(arg[r].department)>>
                       ELSE IF NumGe(arg[r].confidence, Dec(6, 1))
                       THEN <<"Suggested routing to ", DisplayName(arg[r].department),
                              " - Manual review recommended">>
                       ELSE <<"Low confidence routing to ", DisplayName(arg[r].department),
                              " - Manual review required">>

\* the classification calls to the external capability that are in flight
InFlight == {r \in DOMAIN pc : pc[r] = "generateContent"}

\* C11: under every interleaving of concurrent requests, the number of
\* classification calls in flight never exceeds the configured
\* maximum-concurrent-requests value.
C11_InFlightBounded == Cardinality(InFlight) <= maxConcurrentRequests

\* the file holds text that its format's extractor can return
Extractable(f) ==
    /\ f.present
    /\ f.mimetype \in {"application/pdf", "text/plain"}
    /\ f.mimetype = "application/pdf" => f.body.pdfOk
    /\ ~TrimIsEmpty(f.body.text)

\* the messages of the errors the text extraction ends with
ExtractionErrors ==
    {"File path is required", "File not found", "Unsupported file type",
     "Failed to extract text from PDF file",
     "PDF file appears to be empty or contains no extractable text",
     "Failed to read text file", "Text file is empty",
     "No text content could be extracted from the file"}

\* C12: within one processDocument invocation the classification call begins
\* only after the text extraction has completed successfully, and a failed
\* extraction means no classification call; an invocation of processDocument
\* or classifyText makes at most one call to the external capability, with no
\* retry after a failure.
C12_OneCallAfterExtraction ==
    \A r \in Requests :
        /\ extCalls[r] <= 1
        /\ extractions[r] <= 1
        /\ pc[r] = "extractTextFromFile" => extCalls[r] = 0 /\ extractions[r] = 1
        /\ (FileFlow(r) /\ extCalls[r] > 0) =>
               /\ extractions[r] = 1
               /\ pc[r] \in {"generateContent", "done"}
               /\ Extractable(file[r])
        /\ (FileFlow(r) /\ pc[r] = "done" /\ ret[r].message \in ExtractionErrors) =>
               extCalls[r] = 0
        /\ ExternalCallFailed(r) => extCalls[r] = 1

\* a processDocument invocation is over whose text was extracted and whose one
\* classification call failed
C12_Witness ==
    \E r \in Requests :
        /\ FileFlow(r) /\ pc[r] = "done"
        /\ extractions[r] = 1 /\ extCalls[r] = 1 /\ ~reply[r].got

\* an upload request that has stored its file and has not yet cleaned up
HoldsFile(r) ==
    /\ op[r] = "POST /upload" /\ file[r].present
    /\ pc[r] \in {"validateFileUpload", "uploadAndClassifyDocument", "processDocument",
                  "extractTextFromFile", "generateContent"}

\* C13: under every interleaving of concurrent invocations, the outcome of an
\* invocation is determined by its own input and its own model reply alone
\* (two invocations with the same input and the same reply end alike, and the
\* text an upload has classified is the text of its own file), and until an
\* upload request cleans up, the transient file stored for it is on disk with
\* its own content: no other request deletes or overwrites it.
C13_InvocationsIndependent ==
    /\ \A r1 \in DOMAIN pc, r2 \in DOMAIN pc :
           (/\ pc[r1] = "done" /\ pc[r2] = "done"
            /\ op[r1] = op[r2] /\ arg[r1] = arg[r2] /\ reply[r1] = reply[r2]) =>
               ret[r1] = ret[r2]
    /\ \A r \in DOMAIN pc :
           (op[r] = "POST /upload" /\ extCalls[r] > 0) => text[r] = arg[r].body.text
    /\ \A r \in DOMAIN pc :
           HoldsFile(r) => [path |-> file[r].path, body |-> arg[r].body] \in disk

\* the position of the closing brace that matches an opening one, scanning
\* from position i at nesting depth `depth`; 0 when there is none
RECURSIVE MatchingBrace(_, _, _)
MatchingBrace(t, i, depth) ==
    IF i > Len(t) THEN 0
    ELSE IF t[i].c = "{" THEN MatchingBrace(t, i + 1, depth + 1)
    ELSE IF t[i].c = "}"
    THEN (IF depth = 1 THEN i ELSE MatchingBrace(t, i + 1, depth - 1))
    ELSE MatchingBrace(t, i + 1, depth)

\* the first balanced object substring of a reply: from its first opening
\* brace to the closing brace that matches it; <<>> when there is none
FirstBalanced(t) ==
    LET opens == {i \in 1..Len(t) : t[i].c = "{"}
        first == CHOOSE i \in opens : \A j \in opens : i <= j
    IN  IF opens = {} THEN <<>>
        ELSE IF MatchingBrace(t, first + 1, 1) = 0 THEN <<>>
        ELSE SubSeq(t, first, MatchingBrace(t, first + 1, 1))

\* the reply holds a well-formed JSON object as its first balanced substring
HoldsObject(t) == FirstBalanced(t) # <<>> /\ JSONparse(FirstBalanced(t)).ok

\* C14: for every reply that holds a well-formed JSON object, whatever text
\* precedes or follows it (later braces and a second object included), the
\* candidate classifyDocument decodes is that first object, not the fallback,
\* and the invocation's outcome is the one that object gives.
C14_FirstObjectDecoded ==
    \A r \in Requests :
        (pc[r] = "done" /\ Pipeline(r) /\ reply[r].got /\ HoldsObject(reply[r].t)) =>
            /\ parseReply(reply[r].t) = JSONparse(FirstBalanced(reply[r].t)).val
            /\ ret[r] = callerOutcome(r, classifyDocumentCatch(validateClassificationResult(
                                             JSONparse(FirstBalanced(reply[r].t)).val)))

\* the candidate an invocation has sanitized: the argument of a direct call,
\* or what the reply was decoded to
CandidateOf(r) ==
    IF op[r] = "validateClassificationResult" THEN arg[r].o ELSE Decoded(r)

\* the invocation has returned a sanitized classification
Sanitized(r) ==
    /\ pc[r] = "done" /\ ret[r].kind = "ok"
    /\ \/ op[r] = "validateClassificationResult"
       \/ Pipeline(r) /\ reply[r].got

\* a sequence of strings
IsStringArray(v) == v.t = "arr" /\ \A i \in 1..Len(v.a) : v.a[i].t = "str"

\* C15: after validateClassificationResult, for every candidate, reasoning is
\* a non-empty string ("Classification completed" when the candidate has none
\* or an empty one), suggestedActions is a sequence of strings (the empty
\* sequence when the candidate's value is not a sequence of strings), and
\* extractedData is a mapping (the empty mapping when the candidate has none).
C15_DefaultedFields ==
    \A r \in Requests :
        Sanitized(r) =>
            /\ ret[r].val.reasoning.t = "str"
            /\ Len(ret[r].val.reasoning.s) > 0
            /\ Get(CandidateOf(r), "reasoning") \in {Undef, Null, Str(<<>>)} =>
                   ret[r].val.reasoning =
                       Str(<<"C","l","a","s","s","i","f","i","c","a","t","i","o","n"," ","c","o","m","p","l","e","t","e","d">>)
            /\ IsStringArray(ret[r].val.suggestedActions)
            /\ ~IsStringArray(Get(CandidateOf(r), "suggestedActions")) =>
                   ret[r].val.suggestedActions = Arr(<<>>)
            /\ ret[r].val.extractedData.t = "obj"
            /\ Get(CandidateOf(r), "extractedData") \in {Undef, Null} =>
                   ret[r].val.extractedData = Obj(<<>>)

\* C16 as stated: every text passed by processDocument or classifyText to the
\* classifier has at most 50,000 characters, whatever the length of the input
\* text.
C16_WithinCap ==
    \A r \in Requests :
        (Pipeline(r) /\ extCalls[r] > 0) => Length(text[r]) <= 50000

\* C16, amended: every text passed by processDocument or classifyText to the
\* classifier has at most 50,000 characters plus the 15 of the truncation
\* marker, whatever the length of the input text, and it is within 50,000
\* characters exactly when the input text is.
C16_WithinCapAndMarker ==
    \A r \in Requests :
        (Pipeline(r) /\ extCalls[r] > 0) =>
            /\ Length(text[r]) <= 50000 + 15
            /\ Length(text[r]) <= 50000 <=> Length(Original(r)) <= 50000

\* the text of a file of 10 MB was passed on, cut to 50,015 characters
C16_Witness ==
    \E r \in Requests :
        /\ FileFlow(r) /\ extCalls[r] > 0
        /\ Length(Original(r)) = 10 * 1024 * 1024
        /\ Length(text[r]) = 50015

=============================================================================
